---- MODULE Spec2Model ----
(***************************************************************************)
(* Model of AIRMASH Ground Control: the command interpreter               *)
(* (src/src/commands.rs), the fleet manager (src/src/server.rs) and the   *)
(* wingman unit with its shutdown flag (src/src/wing.rs).                 *)
(*                                                                         *)
(* Text is modelled as sequences of one-character strings, so that        *)
(* starts_with, split_whitespace, parse and format are computed the way   *)
(* the code computes them.                                                *)
(***************************************************************************)
EXTENDS Integers, Sequences, FiniteSets, TLC

(***************************************************************************)
(* Bounds of the model                                                     *)
(***************************************************************************)
\* largest configured per-player maximum explored
MaxWingsCfg == 2
\* largest "current wings" value fed to the interpreter on its own
MaxCount == 3
\* longest numeral fed to the interpreter on its own
MaxDigits == 3
\* number of player ids in the game
NumPlayers == 2
\* total number of flags (wingman units) ever created in one behaviour
MaxFlags == 2

(***************************************************************************)
(* commands.rs: raw command strings                                        *)
(***************************************************************************)
PREFIX == <<"-", "-", "g", "c">>
HELP == <<"-", "-", "g", "c", "-", "h", "e", "l", "p">>
WINGS == <<"-", "-", "g", "c", "-", "w", "i", "n", "g", "s">>
CALL_OFF == <<"-", "-", "g", "c", "-", "c", "a", "l", "l", "-", "o", "f", "f">>
VERSION == <<"-", "-", "g", "c", "-", "v", "e", "r", "s", "i", "o", "n">>

\* clap's crate_version!(): the version text of the crate, fixed at build
\* time; only its being a text matters here
crate_version == <<"0", ".", "1", ".", "0">>

(***************************************************************************)
(* Text helpers: what the standard library calls used by the code do      *)
(***************************************************************************)
DigitChars == {"0", "1", "2", "3", "4", "5", "6", "7", "8", "9"}

DigitVal(c) ==
    CASE c = "0" -> 0 [] c = "1" -> 1 [] c = "2" -> 2 [] c = "3" -> 3
      [] c = "4" -> 4 [] c = "5" -> 5 [] c = "6" -> 6 [] c = "7" -> 7
      [] c = "8" -> 8 [] c = "9" -> 9

DigitChar(d) ==
    CASE d = 0 -> "0" [] d = 1 -> "1" [] d = 2 -> "2" [] d = 3 -> "3"
      [] d = 4 -> "4" [] d = 5 -> "5" [] d = 6 -> "6" [] d = 7 -> "7"
      [] d = 8 -> "8" [] d = 9 -> "9"

\* str::starts_with
starts_with(s, p) ==
    /\ Len(s) >= Len(p)
    /\ SubSeq(s, 1, Len(p)) = p

is_whitespace(c) == c \in {" ", "\t"}

\* str::split_whitespace, collected: the maximal runs of non-whitespace
RECURSIVE split_ws(_, _, _)
split_ws(s, i, word) ==
    IF i > Len(s)
    THEN (IF word = <<>> THEN <<>> ELSE <<word>>)
    ELSE IF is_whitespace(s[i])
         THEN (IF word = <<>> THEN <<>> ELSE <<word>>) \o split_ws(s, i + 1, <<>>)
         ELSE split_ws(s, i + 1, Append(word, s[i]))

split_whitespace(s) == split_ws(s, 1, <<>>)

\* the width of the wings counter
U8_MAX == 255

\* <u8 as FromStr>::from_str: an optional '+', then one or more decimal
\* digits accumulated with checked arithmetic; -1 stands for Err
RECURSIVE parse_digits(_, _, _)
parse_digits(s, i, acc) ==
    IF i > Len(s) THEN acc
    ELSE IF s[i] \notin DigitChars THEN -1
    ELSE IF acc * 10 > U8_MAX THEN -1
    ELSE IF acc * 10 + DigitVal(s[i]) > U8_MAX THEN -1
    ELSE parse_digits(s, i + 1, acc * 10 + DigitVal(s[i]))

parse_u8(s) ==
    IF s = <<>> THEN -1
    ELSE LET digits == IF s[1] = "+" THEN Tail(s) ELSE s
         IN  IF digits = <<>> THEN -1 ELSE parse_digits(digits, 1, 0)

\* Display of an unsigned integer, as format!("{}", n) prints it
RECURSIVE fmt_uint(_)
fmt_uint(n) ==
    IF n < 10 THEN <<DigitChar(n)>>
    ELSE Append(fmt_uint(n \div 10), DigitChar(n % 10))

(***************************************************************************)
(* commands.rs: responses                                                  *)
(***************************************************************************)
version_message ==
    << <<"A", "I", "R", "M", "A", "S", "H", " ", "G", "r", "o", "u", "n", "d",
         " ", "C", "o", "n", "t", "r", "o", "l", ",", " ", "v", "e", "r", "s",
         "i", "o", "n", " ">> \o crate_version >>

command_help(cmd, help) == cmd \o <<":", " ">> \o help

help_response ==
    << command_help(WINGS, <<"r", "e", "q", "u", "e", "s", "t", " ", "X", " ",
                             "a", "t", "t", "a", "c", "k", "i", "n", "g", " ",
                             "w", "i", "n", "g", "m", "e", "n">>),
       command_help(CALL_OFF, <<"r", "e", "m", "o", "v", "e", " ", "a", "n",
                                "y", " ", "r", "e", "q", "u", "e", "s", "t",
                                "e", "d", " ", "w", "i", "n", "g", "m", "e",
                                "n">>),
       command_help(VERSION, <<"p", "r", "o", "g", "r", "a", "m", " ", "v",
                               "e", "r", "s", "i", "o", "n">>) >>

\* Command::new
Command(message, user, wings) ==
    [message |-> message, user |-> user, wings |-> wings]

\* enum BadCommand
Unknown(text) == [bad |-> "Unknown", text |-> text]
NoWings(user) == [bad |-> "NoWings", user |-> user]
TooManyWings(user, max) == [bad |-> "TooManyWings", user |-> user, max |-> max]
AlreadyWinged(user, wings) ==
    [bad |-> "AlreadyWinged", user |-> user, wings |-> wings]

\* impl Display for BadCommand
fmt_BadCommand(e) ==
    CASE e.bad = "Unknown" ->
           <<"u", "n", "k", "n", "o", "w", "n", " ", "c", "o", "m", "m", "a",
             "n", "d", ":", " ", "'">> \o e.text \o <<"'">>
      [] e.bad = "NoWings" ->
           <<"n", "o", " ", "w", "i", "n", "g", "s", " ", "a", "s", "s", "i",
             "g", "n", "e", "d", " ", "t", "o", " ">> \o e.user
      [] e.bad = "TooManyWings" ->
           <<"t", "o", "o", " ", "m", "a", "n", "y", " ", "w", "i", "n", "g",
             "s", " ", "a", "t", "t", "a", "c", "k", "i", "n", "g", " ">>
           \o e.user \o <<" ", "(", "m", "a", "x", " ">> \o fmt_uint(e.max)
           \o <<" ", "w", "i", "n", "g", "s", ")">>
      [] e.bad = "AlreadyWinged" ->
           e.user \o <<" ", "a", "l", "r", "e", "a", "d", "y", " ", "h", "a",
                       "s", " ">> \o fmt_uint(e.wings)
           \o <<" ", "w", "i", "n", "g", "s", ";", " ", "u", "s", "e", " ">>
           \o CALL_OFF \o <<" ", "t", "o", " ", "r", "e", "m", "o", "v", "e">>

\* enum ResponseKind, wrapped in the Option of Response::kind
KindNone == [kind |-> "None"]
SetWings(wings) == [kind |-> "SetWings", wings |-> wings]
ClearWings == [kind |-> "ClearWings"]

\* Result<Response, BadCommand> inside the Option of parse_command
NotForUs == [tag |-> "None"]
Ok(message, kind) == [tag |-> "Ok", message |-> message, kind |-> kind]
Err(e) == [tag |-> "Err", err |-> e]

\* mutant: a message-only response carries the clear action
just_message_clear(message) == Ok(message, ClearWings)

\* Response::just_message
just_message(message) == Ok(message, KindNone)

\* Response::add_wings
add_wings(user, wings) ==
    Ok(<< <<"O", "K", " ">> \o user \o <<",", " ">> \o fmt_uint(wings)
          \o <<" ", "w", "i", "n", "g", "s", " ", "a", "r", "e", " ", "c",
               "o", "m", "i", "n", "g", "!">> >>,
       SetWings(wings))

\* Response::clear_wings
clear_wings(user) ==
    Ok(<< <<"C", "a", "l", "l", "i", "n", "g", " ", "o", "f", "f", " ", "a",
            "l", "l", " ", "w", "i", "n", "g", "s", " ", "f", "r", "o", "m",
            " ">> \o user >>,
       ClearWings)

(***************************************************************************)
(* commands.rs: ControlTower                                               *)
(***************************************************************************)
\* mutant: the zero check of the wings branch is missing
wings_request_nozero(max, cmd) ==
    IF cmd.wings > 0
    THEN Err(AlreadyWinged(cmd.user, cmd.wings))
    ELSE LET words == split_whitespace(cmd.message)
             count == IF Len(words) < 2 THEN -1 ELSE parse_u8(words[2])
         IN  IF count = -1 THEN Err(Unknown(cmd.message))
             ELSE IF count > max THEN Err(TooManyWings(cmd.user, max))
             ELSE add_wings(cmd.user, count)

\* the --gc-wings branch of parse_command_impl
wings_request(max, cmd) ==
    IF cmd.wings > 0
    THEN Err(AlreadyWinged(cmd.user, cmd.wings))
    ELSE LET words == split_whitespace(cmd.message)
             count == IF Len(words) < 2 THEN -1 ELSE parse_u8(words[2])
         IN  IF count = -1 THEN Err(Unknown(cmd.message))
             ELSE IF count > max THEN Err(TooManyWings(cmd.user, max))
             ELSE IF count = 0 THEN Err(Unknown(cmd.message))
             ELSE add_wings(cmd.user, count)

\* mutant: call-off asks for more than one wing
call_off_request_gt1(cmd) ==
    IF cmd.wings > 1
    THEN clear_wings(cmd.user)
    ELSE Err(NoWings(cmd.user))

\* the --gc-call-off branch of parse_command_impl
call_off_request(cmd) ==
    IF cmd.wings > 0
    THEN clear_wings(cmd.user)
    ELSE Err(NoWings(cmd.user))

parse_command_impl(max, cmd) ==
    IF cmd.message = HELP THEN just_message(help_response)
    ELSE IF cmd.message = VERSION THEN just_message(version_message)
    ELSE IF starts_with(cmd.message, WINGS) THEN wings_request(max, cmd)
    ELSE IF cmd.message = CALL_OFF THEN call_off_request(cmd)
    ELSE Err(Unknown(cmd.message))

\* mutant: the prefix is not looked at
parse_command_noprefix(max, cmd) == parse_command_impl(max, cmd)

parse_command(max, cmd) ==
    IF ~starts_with(cmd.message, PREFIX)
    THEN NotForUs
    ELSE parse_command_impl(max, cmd)

(***************************************************************************)
(* State                                                                   *)
(***************************************************************************)
VARIABLES
    max_wings,  \* ControlTower::max_wings
    announce,   \* Server::announce
    players,    \* ids in the server's client.world.players
    wingmen,    \* Server::wingmen: player id -> list of flags
    flags,      \* every Flag ever created: its AtomicBool and who stored to it
    units,      \* every Wingman task ever spawned: target, flag, position
    running,    \* Server::run has not returned
    event,      \* what the last step handled
    cmd,        \* the Command built by the last handle_message
    parsed,     \* what parse_command returned for it
    sent,       \* the client calls made by the last handler of the server
    spawned,    \* the units started by the last handler
    failed,     \* which of the calls in sent returned an error
    wing,       \* one wingman followed through its pursuit loop
    geo         \* an input of the grid functions and what they returned

vars == <<max_wings, announce, players, wingmen, flags, units, running,
          event, cmd, parsed, sent, spawned, failed, wing, geo>>

\* wing and geo while nothing is followed or computed
NoWing == [pc |-> "off"]
NoGeo == [op |-> "none"]

PlayerIds == 1..NumPlayers

\* the name the world view holds for a player id
NameOf(id) == <<"P">> \o fmt_uint(id)

Users == {NameOf(id) : id \in PlayerIds}

NoCommand == [message |-> <<>>, user |-> <<>>, wings |-> 0]
Idle == [tag |-> "Idle"]

EmptyMap == [p \in {} |-> <<>>]

(***************************************************************************)
(* wing.rs: Flag                                                           *)
(***************************************************************************)
\* Flag::default: a new AtomicBool, false; stores counts the stores made
\* to it by the handle of the server and by the clone of the wingman
FlagDefault == [inner |-> FALSE, stores |-> [server |-> 0, wingman |-> 0]]

\* Flag::read
FlagRead(F, f) == F[f].inner

\* mutant: the drop flips the flag instead of setting it
FlagDrop_toggle(F, f, who) ==
    [F EXCEPT ![f] = [inner |-> ~@.inner,
                      stores |-> [@.stores EXCEPT ![who] = @ + 1]]]

\* impl Drop for Flag: the handle held by `who` goes away
FlagDrop(F, f, who) ==
    [F EXCEPT ![f] = [inner |-> TRUE,
                      stores |-> [@.stores EXCEPT ![who] = @ + 1]]]

\* mutant: only the first flag of the list is dropped
DropAll_first(F, fs, who) ==
    IF fs = <<>> THEN F ELSE FlagDrop(F, Head(fs), who)

\* dropping a Vec<Flag>
RECURSIVE DropAll(_, _, _)
DropAll(F, fs, who) ==
    IF fs = <<>> THEN F
    ELSE DropAll(FlagDrop(F, Head(fs), who), Tail(fs), who)

(***************************************************************************)
(* server.rs: Server                                                       *)
(***************************************************************************)
\* Server::player_name: "" stands for None
player_name(P, id) == IF id \in P THEN NameOf(id) ELSE <<>>

\* mutant: the flag is created once, before the loop, and every unit gets
\* a clone of it
RECURSIVE spawn_loop_shared(_, _, _)
spawn_loop_shared(S, name, left) ==
    IF left = 0 THEN S
    ELSE LET f == IF S.list = <<>> THEN Len(S.flags) + 1 ELSE S.list[1]
             u == Len(S.units) + 1
         IN  spawn_loop_shared(
                 [S EXCEPT !.flags = IF S.list = <<>>
                                     THEN Append(@, FlagDefault) ELSE @,
                           !.units = Append(@, [target |-> name,
                                                shutdown |-> f,
                                                pc |-> "spawn"]),
                           !.list = Append(@, f),
                           !.spawned = @ \cup {u}],
                 name, left - 1)

\* the body of the loop of spawn_wingmen, `left` more times
RECURSIVE spawn_loop(_, _, _)
spawn_loop(S, name, left) ==
    IF left = 0 THEN S
    ELSE LET f == Len(S.flags) + 1
             u == Len(S.units) + 1
         IN  spawn_loop([S EXCEPT !.flags = Append(@, FlagDefault),
                                  !.units = Append(@, [target |-> name,
                                                       shutdown |-> f,
                                                       pc |-> "spawn"]),
                                  !.list = Append(@, f),
                                  !.spawned = @ \cup {u}],
                        name, left - 1)

\* mutant: the list of flags is not put into the map
map_insert_lost(W, F, id, list) == [wingmen |-> W, flags |-> F]

\* HashMap::insert: the value replaced, if any, is dropped
map_insert(W, F, id, list) ==
    [wingmen |-> [p \in DOMAIN W \cup {id} |-> IF p = id THEN list ELSE W[p]],
     flags |-> IF id \in DOMAIN W THEN DropAll(F, W[id], "server") ELSE F]

\* Server::spawn_wingmen
spawn_wingmen(S, P, id, wings) ==
    IF player_name(P, id) = <<>> THEN S
    ELSE LET L == spawn_loop([S EXCEPT !.list = <<>>],
                             player_name(P, id), wings)
             M == map_insert(L.wingmen, L.flags, id, L.list)
         IN  [L EXCEPT !.wingmen = M.wingmen, !.flags = M.flags]

\* mutant: the flags are dropped but the entry stays in the map
clear_wingmen_keep(S, id) ==
    IF id \in DOMAIN S.wingmen
    THEN [S EXCEPT !.flags = DropAll(@, S.wingmen[id], "server")]
    ELSE S

\* mutant: the entry is removed but its flags are kept alive
clear_wingmen_leak(S, id) ==
    IF id \in DOMAIN S.wingmen
    THEN [S EXCEPT !.wingmen = [p \in DOMAIN @ \ {id} |-> @[p]]]
    ELSE S

\* mutant: the call-off of one player empties the whole map and drops
\* every flag
clear_wingmen_all(S, id) ==
    IF id \in DOMAIN S.wingmen
    THEN [S EXCEPT !.wingmen = [p \in {} |-> <<>>],
                   !.flags = DropAll(@, [f \in DOMAIN S.flags |-> f],
                                     "server")]
    ELSE S

\* Server::clear_wingmen
clear_wingmen(S, id) ==
    IF id \in DOMAIN S.wingmen
    THEN [S EXCEPT !.wingmen = [p \in DOMAIN @ \ {id} |-> @[p]],
                   !.flags = DropAll(@, S.wingmen[id], "server")]
    ELSE S

\* the wingmen_count of handle_message
wingmen_count(W, id) ==
    IF id \in DOMAIN W THEN Len(W[id]) % (U8_MAX + 1) ELSE 0

\* the chat()/wait() calls that relay the lines of a response
RECURSIVE relay(_)
relay(msgs) ==
    IF msgs = <<>> THEN <<>>
    ELSE << [call |-> "chat", text |-> Head(msgs)],
            [call |-> "wait", ms |-> 1000] >> \o relay(Tail(msgs))

\* mutant: the first call that fails ends the handler, as `?` would
RECURSIVE warn_on_err_abort(_, _)
warn_on_err_abort(calls, bad) ==
    IF calls = <<>> THEN <<>>
    ELSE IF 1 \in bad THEN <<Head(calls)>>
    ELSE <<Head(calls)>>
         \o warn_on_err_abort(Tail(calls), {i - 1 : i \in bad})

\* warn_on_err!: the error of a call is logged and dropped, so every call
\* of the sequence is made whichever of them fail
warn_on_err(calls, bad) == calls

\* mutant: a handler one of whose calls failed ends the loop
run_after_strict(bad) == bad = {}

\* Server::run after handle_packet returned: the handlers return (),
\* whatever their calls returned, and the loop goes round
run_after(bad) == TRUE

\* mutant: the map goes away without its flags being dropped
drop_map_forget(F, W) == F

\* the drop of the HashMap of the server: every list of flags in it is
\* dropped, flag by flag
RECURSIVE drop_map(_, _)
drop_map(F, W) ==
    IF DOMAIN W = {} THEN F
    ELSE LET p == CHOOSE q \in DOMAIN W : TRUE
         IN drop_map(DropAll(F, W[p], "server"),
                     [q \in DOMAIN W \ {p} |-> W[q]])

\* the state handle_message works on
ServerState ==
    [wingmen |-> wingmen, flags |-> flags, units |-> units,
     list |-> <<>>, spawned |-> {}]

\* the match on resp.kind() in handle_message
apply_kind(S, P, id, kind) ==
    CASE kind.kind = "SetWings" -> spawn_wingmen(S, P, id, kind.wings)
      [] kind.kind = "ClearWings" -> clear_wingmen(S, id)
      [] OTHER -> S

\* mutant: a bad command is not answered
replies_silent(res) ==
    CASE res.tag = "None" -> <<>>
      [] res.tag = "Err" -> <<>>
      [] res.tag = "Ok" -> relay(res.message)

\* the calls handle_message makes on the client for a parse result
replies(res) ==
    CASE res.tag = "None" -> <<>>
      [] res.tag = "Err" -> << [call |-> "chat", text |-> fmt_BadCommand(res.err)] >>
      [] res.tag = "Ok" -> relay(res.message)

\* the text of the announcement of handle_packet
announcement(name) ==
    <<"G", "r", "o", "u", "n", "d", " ", "C", "o", "n", "t", "r", "o", "l",
      ",", " ", "s", "t", "a", "n", "d", "i", "n", "g", " ", "b", "y", " ",
      "f", "o", "r", " ">> \o name \o <<"!", " ", "U", "s", "e", " ">>
    \o HELP \o <<" ", "f", "o", "r", " ", "h", "e", "l", "p", ".">>

\* the chat texts the players send
ChatTexts ==
    { <<"-", "-", "g", "a", "m", "e", "-", "s", "t", "a", "t", "s">>,
      HELP, VERSION, CALL_OFF,
      WINGS \o <<" ", "2", "5", "6">> }
    \cup { WINGS \o <<" ">> \o fmt_uint(n) : n \in 0..(MaxWingsCfg + 1) }

Init ==
    /\ max_wings = MaxWingsCfg
    /\ announce \in BOOLEAN
    /\ players \in SUBSET PlayerIds
    /\ wingmen = EmptyMap
    /\ flags = <<>>
    /\ units = <<>>
    /\ running = TRUE
    /\ event = [type |-> "Start"]
    /\ cmd = NoCommand
    /\ parsed = Idle
    /\ sent = <<>>
    /\ spawned = {}
    /\ failed = {}
    /\ wing = NoWing
    /\ geo = NoGeo

\* ChatPublic: Server::handle_message; with faulty, any of the calls it
\* makes on the client may fail
HandleChat(id, text, faulty) ==
    /\ running
    /\ event' = [type |-> "ChatPublic", id |-> id, text |-> text]
    /\ IF player_name(players, id) = <<>>
       THEN /\ cmd' = NoCommand
            /\ parsed' = Idle
            /\ sent' = <<>>
            /\ spawned' = {}
            /\ failed' = {}
            /\ UNCHANGED <<wingmen, flags, units>>
       ELSE LET c == Command(text, player_name(players, id),
                             wingmen_count(wingmen, id))
                res == parse_command(max_wings, c)
                S == IF res.tag = "Ok"
                     THEN apply_kind(ServerState, players, id, res.kind)
                     ELSE ServerState
            IN  /\ Len(S.flags) <= MaxFlags
                /\ cmd' = c
                /\ parsed' = res
                /\ wingmen' = S.wingmen
                /\ flags' = S.flags
                /\ units' = S.units
                /\ spawned' = S.spawned
                /\ failed' \in IF faulty
                               THEN SUBSET (1..Len(replies(res)))
                               ELSE {{}}
                /\ sent' = warn_on_err(replies(res), failed')
    /\ running' = run_after(failed')
    /\ UNCHANGED <<max_wings, announce, players, wing, geo>>

\* PlayerLeave: Server::clear_wingmen, silently
HandlePlayerLeave(id) ==
    /\ running
    /\ id \in players
    /\ event' = [type |-> "PlayerLeave", id |-> id]
    /\ players' = players \ {id}
    /\ LET S == clear_wingmen(ServerState, id)
       IN  /\ wingmen' = S.wingmen
           /\ flags' = S.flags
           /\ units' = S.units
           /\ spawned' = S.spawned
    /\ cmd' = NoCommand
    /\ parsed' = Idle
    /\ sent' = <<>>
    /\ failed' = {}
    /\ UNCHANGED <<max_wings, announce, running, wing, geo>>

\* PlayerNew: the announcement, if enabled
HandlePlayerNew(id, faulty) ==
    /\ running
    /\ id \notin players
    /\ event' = [type |-> "PlayerNew", id |-> id]
    /\ players' = players \cup {id}
    /\ failed' \in IF faulty /\ announce THEN {{}, {1}} ELSE {{}}
    /\ sent' = IF announce
               THEN warn_on_err(
                        << [call |-> "chat",
                            text |-> announcement(NameOf(id))] >>, failed')
               ELSE <<>>
    /\ cmd' = NoCommand
    /\ parsed' = Idle
    /\ spawned' = {}
    /\ running' = run_after(failed')
    /\ UNCHANGED <<max_wings, announce, wingmen, flags, units, wing, geo>>

\* any other packet, or an event that is not a packet
HandleOther ==
    /\ running
    /\ event' = [type |-> "Other"]
    /\ cmd' = NoCommand
    /\ parsed' = Idle
    /\ sent' = <<>>
    /\ spawned' = {}
    /\ failed' = {}
    /\ UNCHANGED <<max_wings, announce, players, wingmen, flags, units,
                   running, wing, geo>>

\* client.next() fails: run returns and the Server, with its map, is dropped
RunReadError ==
    /\ running
    /\ running' = FALSE
    /\ event' = [type |-> "ReadError"]
    /\ wingmen' = EmptyMap
    /\ flags' = drop_map(flags, wingmen)
    /\ cmd' = NoCommand
    /\ parsed' = Idle
    /\ sent' = <<>>
    /\ spawned' = {}
    /\ failed' = {}
    /\ UNCHANGED <<max_wings, announce, players, units, wing, geo>>

(***************************************************************************)
(* wing.rs: Wingman                                                        *)
(***************************************************************************)
NoServerStep ==
    /\ cmd' = NoCommand
    /\ parsed' = Idle
    /\ sent' = <<>>
    /\ spawned' = {}
    /\ failed' = {}
    /\ UNCHANGED <<max_wings, announce, players, wingmen, running, wing, geo>>

\* the task of unit u moves to pc; when it returns, its clone of the flag
\* is dropped
WingGoto(u, pc) ==
    /\ units' = [units EXCEPT ![u].pc = pc]
    /\ flags' = IF pc = "done"
                THEN FlagDrop(flags, units[u].shutdown, "wingman")
                ELSE flags

\* how far Wingman::spawn gets before the loop of follow: connecting,
\* sending the login, waiting for the login, looking the target up by name,
\* and the first press_key(Up) of follow
StartOutcomes ==
    {"connect_err", "login_err", "wait_login_err", "no_target", "press_err",
     "following"}

\* Wingman::spawn up to the loop of follow
WingStart(u, outcome) ==
    /\ units[u].pc = "spawn"
    /\ event' = [type |-> "Wingman", id |-> u]
    /\ WingGoto(u, IF outcome = "following" THEN "next" ELSE "done")
    /\ NoServerStep

\* mutant: the shutdown flag is not looked at
loop_head_deaf(res, shutdown, present) ==
    CASE res = "Err" -> "read"
      [] res = "None" -> "closed"
      [] ~present -> "absent"
      [] OTHER -> "go"

\* mutant: the target is looked up before the flag is read
loop_head_target_first(res, shutdown, present) ==
    CASE res = "Err" -> "read"
      [] res = "None" -> "closed"
      [] ~present -> "absent"
      [] shutdown -> "flag"
      [] OTHER -> "go"

\* the head of the loop of follow: the result of client.next() (an error
\* leaves follow through `?`, None ends the loop), then shutdown.read(),
\* then the target in the world view
loop_head(res, shutdown, present) ==
    CASE res = "Err" -> "read"
      [] res = "None" -> "closed"
      [] shutdown -> "flag"
      [] ~present -> "absent"
      [] OTHER -> "go"

\* follow: client.next() at the head of the loop, then the check of the
\* flag and of the presence of the target
WingNext(u, res, present) ==
    /\ units[u].pc = "next"
    /\ event' = [type |-> "Wingman", id |-> u]
    /\ LET head == loop_head(res, FlagRead(flags, units[u].shutdown), present)
       IN WingGoto(u, CASE head = "read" -> "done"
                        [] head \in {"closed", "flag", "absent"} -> "release"
                        [] OTHER -> "act")
    /\ NoServerStep

\* follow: the commands of one iteration and its wait; a failure returns
WingAct(u, ok) ==
    /\ units[u].pc = "act"
    /\ event' = [type |-> "Wingman", id |-> u]
    /\ WingGoto(u, IF ok THEN "next" ELSE "done")
    /\ NoServerStep

\* follow: release_key(Up) after the loop; follow returns either way
WingRelease(u, ok) ==
    /\ units[u].pc = "release"
    /\ event' = [type |-> "Wingman", id |-> u]
    /\ WingGoto(u, "done")
    /\ NoServerStep

Next ==
    \/ \E id \in PlayerIds, text \in ChatTexts : HandleChat(id, text, FALSE)
    \/ \E id \in PlayerIds : HandlePlayerLeave(id)
    \/ \E id \in PlayerIds : HandlePlayerNew(id, FALSE)
    \/ HandleOther
    \/ RunReadError
    \/ \E u \in DOMAIN units, outcome \in StartOutcomes : WingStart(u, outcome)
    \/ \E u \in DOMAIN units, res \in {"Err", "None", "Some"},
          present \in BOOLEAN : WingNext(u, res, present)
    \/ \E u \in DOMAIN units, ok \in BOOLEAN : WingAct(u, ok)
    \/ \E u \in DOMAIN units, ok \in BOOLEAN : WingRelease(u, ok)

Spec == Init /\ [][Next]_vars

(***************************************************************************)
(* The same with every suspension point of every wingman resolving in     *)
(* the end: the task of a wingman that can take a step takes one          *)
(***************************************************************************)
MaxUnits == MaxFlags + MaxWingsCfg

WingSteps(u) ==
    /\ u \in DOMAIN units
    /\ \/ \E outcome \in StartOutcomes : WingStart(u, outcome)
       \/ \E res \in {"Err", "None", "Some"}, present \in BOOLEAN :
              WingNext(u, res, present)
       \/ \E ok \in BOOLEAN : WingAct(u, ok)
       \/ \E ok \in BOOLEAN : WingRelease(u, ok)

\* the chat lines that order wings and call them off
OrderTexts ==
    {CALL_OFF} \cup {WINGS \o <<" ">> \o fmt_uint(n) : n \in 1..MaxWingsCfg}

LiveNext ==
    \/ \E id \in PlayerIds, text \in OrderTexts : HandleChat(id, text, FALSE)
    \/ \E id \in PlayerIds : HandlePlayerLeave(id)
    \/ \E id \in PlayerIds : HandlePlayerNew(id, FALSE)
    \/ RunReadError
    \/ \E u \in 1..MaxUnits : WingSteps(u)

LiveSpec ==
    Init /\ [][LiveNext]_vars /\ \A u \in 1..MaxUnits : WF_vars(WingSteps(u))

(***************************************************************************)
(* The fleet manager on its own, with client calls that may fail: the     *)
(* wingmen it spawned do not take steps                                   *)
(***************************************************************************)
FaultNext ==
    \/ \E id \in PlayerIds, text \in ChatTexts : HandleChat(id, text, TRUE)
    \/ \E id \in PlayerIds : HandlePlayerLeave(id)
    \/ \E id \in PlayerIds : HandlePlayerNew(id, TRUE)
    \/ HandleOther
    \/ RunReadError

FaultSpec == Init /\ [][FaultNext]_vars

(***************************************************************************)
(* The command interpreter on its own: parse_command applied to every     *)
(* command of a bounded set                                               *)
(***************************************************************************)
Numerals == UNION { [1..n -> DigitChars] : n \in 1..MaxDigits }

ParseTexts ==
    ChatTexts
    \cup { <<"h", "i">>, <<>>, PREFIX, WINGS, WINGS \o <<" ", "x">>,
           PREFIX \o <<"-", "f", "o", "o">> }
    \cup { WINGS \o <<" ">> \o num : num \in Numerals }
    \cup { WINGS \o <<" ">>,
           WINGS \o <<"3">>,
           WINGS \o <<" ", "+", "2">>,
           WINGS \o <<" ", "-", "1">>,
           WINGS \o <<" ", "+">>,
           WINGS \o <<" ", " ", "2", " ">>,
           WINGS \o <<" ", "1", " ", "x">>,
           WINGS \o <<"\t", "1">>,
           WINGS \o <<"x", " ", "1">>,
           CALL_OFF \o <<" ">>,
           HELP \o <<" ">> }

ParseInit ==
    /\ max_wings \in 0..MaxWingsCfg
    /\ cmd \in { Command(text, user, wings) :
                    text \in ParseTexts, user \in Users, wings \in 0..MaxCount }
    /\ parsed = Idle
    /\ event = [type |-> "Start"]
    /\ announce = TRUE
    /\ players = {}
    /\ wingmen = EmptyMap
    /\ flags = <<>>
    /\ units = <<>>
    /\ running = TRUE
    /\ sent = <<>>
    /\ spawned = {}
    /\ failed = {}
    /\ wing = NoWing
    /\ geo = NoGeo

ParseStep ==
    /\ parsed = Idle
    /\ parsed' = parse_command(max_wings, cmd)
    /\ event' = [type |-> "Parse"]
    /\ UNCHANGED <<max_wings, announce, players, wingmen, flags, units,
                   running, cmd, sent, spawned, failed, wing, geo>>

ParseNext == ParseStep

ParseSpec == ParseInit /\ [][ParseNext]_vars

(***************************************************************************)
(* Properties of the command interpreter (checked under ParseSpec)        *)
(***************************************************************************)
IsNumeral(s) == s # <<>> /\ \A i \in 1..Len(s) : s[i] \in DigitChars

\* the integer a numeral spells
RECURSIVE NumeralValue(_)
NumeralValue(s) ==
    IF s = <<>> THEN 0
    ELSE 10 * NumeralValue(SubSeq(s, 1, Len(s) - 1)) + DigitVal(s[Len(s)])

\* the text after "--gc-wings "
WingsArg(message) == SubSeq(message, Len(WINGS) + 2, Len(message))

IsWingsRequest(message) ==
    /\ starts_with(message, WINGS \o <<" ">>)
    /\ IsNumeral(WingsArg(message))

\* what the wings command is to answer for the number N, by the order of
\* checks: already assigned, zero, too many, success
WingsAnswer(message, user, C, M, N) ==
    IF C > 0 THEN Err(AlreadyWinged(user, C))
    ELSE IF N = 0 THEN Err(Unknown(message))
    ELSE IF N > M THEN Err(TooManyWings(user, M))
    ELSE Ok(<< <<"O", "K", " ">> \o user \o <<",", " ">> \o fmt_uint(N)
               \o <<" ", "w", "i", "n", "g", "s", " ", "a", "r", "e", " ",
                    "c", "o", "m", "i", "n", "g", "!">> >>,
            SetWings(N))

\* C1: for every maximum M, count C, user and request "--gc-wings <N>" with
\* N any non-negative integer the text spells, parse_command succeeds with
\* SetWings(N) and the reply "OK <user>, <N> wings are coming!" iff C = 0 and
\* 0 < N <= M, and otherwise fails with AlreadyWinged(user, C) if C > 0,
\* else Unknown(message) if N = 0, else TooManyWings(user, M) if N > M.
C1_WingsAnyNumber ==
    (parsed # Idle /\ IsWingsRequest(cmd.message)) =>
        parsed = WingsAnswer(cmd.message, cmd.user, cmd.wings, max_wings,
                             NumeralValue(WingsArg(cmd.message)))

\* C2: the exact message "--gc-call-off" succeeds with action ClearWings iff
\* the current count is above 0, and fails with NoWings(user) iff it is 0.
C2_CallOff ==
    (parsed # Idle /\ cmd.message = CALL_OFF) =>
        /\ (parsed.tag = "Ok" /\ parsed.kind = ClearWings) <=> (cmd.wings > 0)
        /\ (parsed = Err(NoWings(cmd.user))) <=> (cmd.wings = 0)

C2_Witness ==
    /\ cmd.message = CALL_OFF
    /\ cmd.wings > 1
    /\ parsed.tag = "Ok"
    /\ parsed.kind = ClearWings

(***************************************************************************)
(* Properties of the fleet manager and of the flags (checked under Spec)  *)
(***************************************************************************)
\* the flags held in the map
Registered == UNION { {wingmen[p][i] : i \in 1..Len(wingmen[p])} : p \in DOMAIN wingmen }

\* the step handled a chat line of a player the world view knows
IsChatStep(ev, res) == ev.type = "ChatPublic" /\ res # Idle

\* C3: for every message that does not begin with "--gc", whoever sends it
\* and whatever the count, parse_command returns None and the handling of
\* the chat event leaves the map unchanged, sets no flag, spawns no unit and
\* sends no chat.
C3_NotACommand ==
    [][ (event'.type = "ChatPublic" /\ ~starts_with(event'.text, PREFIX)) =>
            /\ parsed' \in {NotForUs, Idle}
            /\ (event'.id \in players => parsed' = NotForUs)
            /\ wingmen' = wingmen
            /\ flags' = flags
            /\ units' = units
            /\ spawned' = {}
            /\ sent' = <<>> ]_vars

C3_Witness ==
    /\ event.type = "ChatPublic"
    /\ ~starts_with(event.text, PREFIX)
    /\ parsed = NotForUs
    /\ cmd.wings > 0
    /\ event.id \in DOMAIN wingmen

\* C4: the exact messages "--gc-help" and "--gc-version" succeed, for every
\* user and count, with a non-empty list of reply lines and no action, and
\* handling them does not change the map.
C4_HelpVersion ==
    [][ (event'.type = "ChatPublic" /\ event'.text \in {HELP, VERSION}
            /\ event'.id \in players) =>
            /\ parsed'.tag = "Ok"
            /\ Len(parsed'.message) > 0
            /\ parsed'.kind = KindNone
            /\ wingmen' = wingmen
            /\ flags' = flags
            /\ spawned' = {} ]_vars

C4_Witness ==
    /\ event.type = "ChatPublic"
    /\ event.text = HELP
    /\ parsed.tag = "Ok"
    /\ cmd.wings > 0
    /\ event.id \in DOMAIN wingmen

\* C5: in every reachable state each player's wingman count (the length of
\* the player's flag list, 0 without an entry) is between 0 and max_wings,
\* and no entry holds an empty list.
C5_CountInRange ==
    \A p \in PlayerIds :
        /\ wingmen_count(wingmen, p) \in 0..max_wings
        /\ (p \in DOMAIN wingmen) <=> (wingmen_count(wingmen, p) > 0)

C5_Witness ==
    \E p \in DOMAIN wingmen :
        /\ Len(wingmen[p]) = max_wings
        /\ max_wings > 1
        /\ event.type = "PlayerNew"

\* the players with an active wingman: one whose task has not returned and
\* whose flag is not set
ActiveTargets ==
    {p \in PlayerIds :
        \E u \in DOMAIN units :
            /\ units[u].target = NameOf(p)
            /\ units[u].pc # "done"
            /\ ~flags[units[u].shutdown].inner}

\* C6 as stated: while the manager runs, the keys of the map are the
\* players with at least one wingman that has not terminated.
C6_KeysAreActive == running => DOMAIN wingmen = ActiveTargets

\* the player whose fleet the step cleared, and the one it created
ClearedBy(ev, res) ==
    IF ev.type = "PlayerLeave" THEN {ev.id}
    ELSE IF IsChatStep(ev, res) /\ res.tag = "Ok" /\ res.kind = ClearWings
         THEN {ev.id}
    ELSE {}

CreatedBy(ev, res) ==
    IF IsChatStep(ev, res) /\ res.tag = "Ok" /\ res.kind.kind = "SetWings"
    THEN {ev.id}
    ELSE {}

\* C6 amended: the keys of the map are the players whose successful wings
\* command has not been followed by their call-off or leave: a step adds
\* the key of the player whose wings command succeeded, removes the key of
\* the player who called off or left, and changes no other key; the steps
\* of the wingmen, their termination included, leave the map as it is.
C6_KeysFollowCommands ==
    [][ running' =>
            /\ DOMAIN wingmen' =
                 (DOMAIN wingmen \ ClearedBy(event', parsed'))
                     \cup CreatedBy(event', parsed')
            /\ (event'.type = "Wingman" => wingmen' = wingmen) ]_vars

C6_Witness ==
    /\ running
    /\ event.type = "Wingman"
    /\ \E p \in DOMAIN wingmen :
          \A i \in 1..Len(wingmen[p]) :
              \A u \in DOMAIN units :
                  units[u].shutdown = wingmen[p][i] => units[u].pc = "done"

\* C7: a flag starts false, and once it is true no step makes it false.
C7_FlagMonotonic ==
    [][ \A f \in DOMAIN flags' :
            IF f \in DOMAIN flags
            THEN flags[f].inner => flags'[f].inner
            ELSE ~flags'[f].inner ]_vars

C7_Witness ==
    \E f \in DOMAIN flags :
        /\ flags[f].inner
        /\ flags[f].stores.server = 1
        /\ flags[f].stores.wingman = 1

UnitDone(f) ==
    \A u \in DOMAIN units : units[u].shutdown = f => units[u].pc = "done"

C9_SpawnExactly ==
    [][ (IsChatStep(event', parsed') /\ parsed'.tag = "Ok"
            /\ parsed'.kind.kind = "SetWings") =>
            LET n == parsed'.kind.wings
                P == event'.id
                new == {units'[u].shutdown : u \in spawned'}
            IN  /\ Cardinality(spawned') = n
                /\ spawned' = DOMAIN units' \ DOMAIN units
                /\ Cardinality(new) = n
                /\ new = DOMAIN flags' \ DOMAIN flags
                /\ \A u \in spawned' :
                      /\ units'[u].target = NameOf(P)
                      /\ units'[u].pc = "spawn"
                      /\ ~flags'[units'[u].shutdown].inner
                /\ \A u \in DOMAIN units : units'[u] = units[u]
                /\ P \in DOMAIN wingmen'
                /\ Len(wingmen'[P]) = n
                /\ {wingmen'[P][i] : i \in 1..n} = new ]_vars

C9_Witness ==
    /\ IsChatStep(event, parsed)
    /\ parsed.tag = "Ok"
    /\ parsed.kind = SetWings(2)
    /\ Cardinality(spawned) = 2
    /\ Len(flags) = 2

\* C10: clearing the fleet of player P, by a successful call-off or by P's
\* leaving, removes P's entry and sets every flag that was in it within
\* the same step, with no unit moved on; the leave sends no chat.
C10_ClearSetsFlags ==
    [][ \A P \in ClearedBy(event', parsed') :
            /\ P \notin DOMAIN wingmen'
            /\ P \in DOMAIN wingmen =>
                  \A i \in 1..Len(wingmen[P]) : flags'[wingmen[P][i]].inner
            /\ units' = units
            /\ spawned' = {}
            /\ event'.type = "PlayerLeave" => sent' = <<>>
            /\ event'.type = "ChatPublic" => P \in DOMAIN wingmen ]_vars

C10_Witness ==
    /\ event.type = "PlayerLeave"
    /\ \E u \in DOMAIN units :
          /\ units[u].target = NameOf(event.id)
          /\ units[u].pc = "act"
          /\ flags[units[u].shutdown].inner
          /\ flags[units[u].shutdown].stores.server = 1


(***************************************************************************)
(* MapPosition: the cells of the map and the world positions (types.rs)    *)
(***************************************************************************)

BOUNDARY_X == 16384
BOUNDARY_Y == BOUNDARY_X \div 2
MAP_MAX_X == 512
MAP_MAX_Y == MAP_MAX_X \div 2

\* a coordinate far outside the world on either side
FarOut == 1000000

abs(v) == IF v < 0 THEN 0 - v ELSE v
min(a, b) == IF a < b THEN a ELSE b
max(a, b) == IF a > b THEN a ELSE b

MapPosition_new(x, y) == [x |-> x, y |-> y]

\* mutant: the index is not capped at the last cell
cell_index_nomin(c, boundary, limit) == max(abs(c + boundary) \div 64, 0)

\* one coordinate of From<Position> for MapPosition: shift by the boundary,
\* divide by 64.0, take the absolute value, at least 0.0, truncate to isize,
\* at most limit - 1. World coordinates are whole numbers here, for which
\* the f32 sum and quotient are exact and the truncation is the integer
\* quotient
cell_index(c, boundary, limit) ==
    min(max(abs(c + boundary) \div 64, 0), limit - 1)

\* From<Position> for MapPosition
MapPosition_from(pos) ==
    MapPosition_new(cell_index(pos.x, BOUNDARY_X, MAP_MAX_X),
                    cell_index(pos.y, BOUNDARY_Y, MAP_MAX_Y))

\* From<MapPosition> for Position: the centre of the cell
Position_from(cell) ==
    [x |-> cell.x * 64 + 32 - BOUNDARY_X,
     y |-> cell.y * 64 + 32 - BOUNDARY_Y]

\* the variables of the fleet manager
managerVars == <<max_wings, announce, players, wingmen, flags, units, running,
                 cmd, parsed, sent, spawned, failed>>

\* the fleet manager as constructed, with nobody in the game
ManagerIdle ==
    /\ max_wings = MaxWingsCfg
    /\ announce = FALSE
    /\ players = {}
    /\ wingmen = EmptyMap
    /\ flags = <<>>
    /\ units = <<>>
    /\ running = TRUE
    /\ cmd = NoCommand
    /\ parsed = Idle
    /\ sent = <<>>
    /\ spawned = {}
    /\ failed = {}

(***************************************************************************)
(* The transform on its own: world positions inside the world, on its     *)
(* edges, and outside it on either side of either axis                    *)
(***************************************************************************)
WorldCoords ==
    {0 - FarOut, -32769, -16385, -16384, -16383, -8193, -8192, -8191, -64,
     -1, 0, 1, 63, 64, 8127, 8128, 8191, 8192, 8193, 16319, 16320, 16383,
     16384, 16385, FarOut}

TransformInit ==
    /\ ManagerIdle
    /\ event = [type |-> "Start"]
    /\ wing = NoWing
    /\ geo \in {[op |-> "from", pos |-> [x |-> px, y |-> py], out |-> <<>>] :
                    px \in WorldCoords, py \in WorldCoords}

TransformStep ==
    /\ geo.op = "from"
    /\ geo.out = <<>>
    /\ geo' = [geo EXCEPT !.out = <<MapPosition_from(geo.pos)>>]
    /\ event' = [type |-> "Transform"]
    /\ UNCHANGED managerVars
    /\ UNCHANGED wing

TransformNext == TransformStep

TransformSpec == TransformInit /\ [][TransformNext]_vars

\* C16: for every world position, inside the world or outside it on either
\* side of either axis, the cell of the position has 0 <= x < 512 and
\* 0 <= y < 256.
C16_CellInRange ==
    (geo.op = "from" /\ geo.out # <<>>) =>
        /\ 0 <= geo.out[1].x
        /\ geo.out[1].x < 512
        /\ 0 <= geo.out[1].y
        /\ geo.out[1].y < 256

\* a position left of the world and below it was transformed
C16_Witness ==
    /\ geo.op = "from"
    /\ geo.out # <<>>
    /\ geo.pos.x < 0 - BOUNDARY_X
    /\ geo.pos.y > BOUNDARY_Y

(***************************************************************************)
(* The occupancy of the map and the line of sight (types.rs)               *)
(***************************************************************************)

\* the cells among which the unoccupied cells of a map are drawn: a window
\* in the corner of the map, of which at most MaxRocks cells are occupied,
\* and a strip of cells running away from it along the edge of the map,
\* unoccupied as a whole or not at all; every other cell is occupied
WinW == 3
WinH == 2
MaxRocks == 2
StripLen == 16

Window == {MapPosition_new(x, y) : x \in 0..(WinW - 1), y \in 0..(WinH - 1)}

Strip == {MapPosition_new(x, 0) : x \in WinW..(WinW + StripLen - 1)}

\* the maps: a map is given by the set of its unoccupied cells
Maps ==
    {(Window \ rocks) \cup strip :
        rocks \in {r \in SUBSET Window : Cardinality(r) <= MaxRocks},
        strip \in {{}, Strip}}

\* crate::map::MAP[y][x] of a map with the unoccupied cells free
MAP(free, y, x) == IF MapPosition_new(x, y) \in free THEN 0 ELSE 1

\* MapPosition::is_occupied
is_occupied(free, self) ==
    \/ self.x < 0
    \/ self.x >= MAP_MAX_X
    \/ self.y < 0
    \/ self.y >= MAP_MAX_Y
    \/ MAP(free, self.y, self.x) = 1

\* From<MapPosition> for (isize, isize)
point_from(pos) == <<pos.x, pos.y>>

\* line_drawing::Octant::new: the octant of the direction from start to end
Octant_new(start, end) ==
    LET dx0 == end[1] - start[1]
        dy0 == end[2] - start[2]
        v4 == dy0 < 0
        dx1 == IF v4 THEN 0 - dx0 ELSE dx0
        dy1 == IF v4 THEN 0 - dy0 ELSE dy0
        v2 == dx1 < 0
        dx2 == IF v2 THEN dy1 ELSE dx1
        dy2 == IF v2 THEN 0 - dx1 ELSE dy1
        v1 == dx2 < dy2
    IN (IF v4 THEN 4 ELSE 0) + (IF v2 THEN 2 ELSE 0) + (IF v1 THEN 1 ELSE 0)

\* line_drawing::Octant::to: a point moved into the first octant
Octant_to(octant, p) ==
    CASE octant = 0 -> <<p[1], p[2]>>
      [] octant = 1 -> <<p[2], p[1]>>
      [] octant = 2 -> <<p[2], 0 - p[1]>>
      [] octant = 3 -> <<0 - p[1], p[2]>>
      [] octant = 4 -> <<0 - p[1], 0 - p[2]>>
      [] octant = 5 -> <<0 - p[2], 0 - p[1]>>
      [] octant = 6 -> <<0 - p[2], p[1]>>
      [] octant = 7 -> <<p[1], 0 - p[2]>>

\* line_drawing::Octant::from: a point of the first octant moved back
Octant_from(octant, p) ==
    CASE octant = 0 -> <<p[1], p[2]>>
      [] octant = 1 -> <<p[2], p[1]>>
      [] octant = 2 -> <<0 - p[2], p[1]>>
      [] octant = 3 -> <<0 - p[1], p[2]>>
      [] octant = 4 -> <<0 - p[1], 0 - p[2]>>
      [] octant = 5 -> <<0 - p[2], 0 - p[1]>>
      [] octant = 6 -> <<p[2], 0 - p[1]>>
      [] octant = 7 -> <<p[1], 0 - p[2]>>

\* Iterator::next of line_drawing::Bresenham, to the end of the line
RECURSIVE Bresenham_next(_, _, _, _, _, _)
Bresenham_next(point, end_x, delta_x, delta_y, error, octant) ==
    IF point[1] <= end_x
    THEN LET up == error >= 0
             y1 == IF up THEN point[2] + 1 ELSE point[2]
             e1 == IF up THEN error - delta_x ELSE error
         IN <<Octant_from(octant, point)>>
            \o Bresenham_next(<<point[1] + 1, y1>>, end_x, delta_x, delta_y,
                              e1 + delta_y, octant)
    ELSE <<>>

\* line_drawing::Bresenham::new and the points the iterator yields: the
\* line from start to end, both included
Bresenham(start, end) ==
    LET octant == Octant_new(start, end)
        s == Octant_to(octant, start)
        e == Octant_to(octant, end)
    IN Bresenham_next(s, e[1], e[1] - s[1], e[2] - s[2],
                      (e[2] - s[2]) - (e[1] - s[1]), octant)

\* Iterator::find_map with the closure of obstacle_between: the first
\* occupied cell of the line, <<>> for None
RECURSIVE find_occupied(_, _)
find_occupied(free, line) ==
    IF line = <<>> THEN <<>>
    ELSE LET pos == MapPosition_new(Head(line)[1], Head(line)[2])
         IN IF is_occupied(free, pos) THEN <<pos>>
            ELSE find_occupied(free, Tail(line))

\* MapPosition::obstacle_between
obstacle_between(free, self, other) ==
    find_occupied(free, Bresenham(point_from(self), point_from(other)))

\* MapPosition::distance
distance(self, other) == abs(self.x - other.x) + abs(self.y - other.y)

(***************************************************************************)
(* The line of sight on its own, in both directions between two cells     *)
(***************************************************************************)
LineInit ==
    /\ ManagerIdle
    /\ event = [type |-> "Start"]
    /\ wing = NoWing
    /\ geo \in {[op |-> "line", free |-> free, a |-> a, b |-> b,
                 there |-> <<>>, back |-> <<>>, did |-> {}] :
                    free \in Maps, a \in Window, b \in Window}

\* obstacle_between(a, b)
LineThere ==
    /\ geo.op = "line"
    /\ "there" \notin geo.did
    /\ geo' = [geo EXCEPT !.there = obstacle_between(geo.free, geo.a, geo.b),
                          !.did = @ \cup {"there"}]
    /\ event' = [type |-> "LineThere"]
    /\ UNCHANGED managerVars
    /\ UNCHANGED wing

\* obstacle_between(b, a)
LineBack ==
    /\ geo.op = "line"
    /\ "back" \notin geo.did
    /\ geo' = [geo EXCEPT !.back = obstacle_between(geo.free, geo.b, geo.a),
                          !.did = @ \cup {"back"}]
    /\ event' = [type |-> "LineBack"]
    /\ UNCHANGED managerVars
    /\ UNCHANGED wing

LineNext == LineThere \/ LineBack

LineSpec == LineInit /\ [][LineNext]_vars

\* C17: for all cells a and b and every map, obstacle_between(a, b) reports
\* an obstacle exactly if obstacle_between(b, a) reports one.
C17_LineSymmetric ==
    (geo.op = "line" /\ geo.did = {"there", "back"}) =>
        (geo.there = <<>> <=> geo.back = <<>>)

(***************************************************************************)
(* The neighbours of a cell and the A* search of the pursuit loop          *)
(***************************************************************************)

\* the cells UnoccupiedMapPositionIter visits around its origin, in its
\* order: row by row from (x - 1, y - 1), the origin left out
ScanOffsets ==
    << <<-1, -1>>, <<0, -1>>, <<1, -1>>, <<-1, 0>>, <<1, 0>>, <<-1, 1>>,
       <<0, 1>>, <<1, 1>> >>

\* mutant: the scan yields occupied cells too
adjacent_positions_any(free, self) ==
    [i \in 1..8 |-> MapPosition_new(self.x + ScanOffsets[i][1],
                                    self.y + ScanOffsets[i][2])]

\* MapPosition::adjacent_positions, as the sequence the iterator yields
adjacent_positions(free, self) ==
    SelectSeq([i \in 1..8 |-> MapPosition_new(self.x + ScanOffsets[i][1],
                                              self.y + ScanOffsets[i][2])],
              LAMBDA pos : ~is_occupied(free, pos))

\* pathfinding's reverse_path: the path to node along the parents
RECURSIVE reverse_path(_, _)
reverse_path(parents, node) ==
    IF parents[node].parent = <<>> THEN <<node>>
    ELSE reverse_path(parents, parents[node].parent[1]) \o <<node>>

\* the loop of astar over the successors of a node popped with cost: a
\* successor not seen before, or reached cheaper than before, gets node as
\* its parent and is pushed with its cost plus the heuristic
RECURSIVE astar_successors(_, _, _, _, _, _)
astar_successors(successors, node, cost, to_see, parents, goal) ==
    IF successors = <<>> THEN [to_see |-> to_see, parents |-> parents]
    ELSE LET successor == Head(successors)
             new_cost == cost + 1
             better == \/ successor \notin DOMAIN parents
                       \/ parents[successor].cost > new_cost
         IN IF better
            THEN astar_successors(
                     Tail(successors), node, cost,
                     to_see \cup {[estimated_cost |->
                                       new_cost + distance(successor, goal),
                                   cost |-> new_cost,
                                   node |-> successor]},
                     [n \in DOMAIN parents \cup {successor} |->
                         IF n = successor
                         THEN [parent |-> <<node>>, cost |-> new_cost]
                         ELSE parents[n]],
                     goal)
            ELSE astar_successors(Tail(successors), node, cost, to_see,
                                  parents, goal)

\* the main loop of astar: pops an entry of the smallest estimated cost
\* (which of several is the heap's choice, so every one of them is taken),
\* ends with the path if its node is the goal, skips an entry that a
\* cheaper way has replaced, and expands the node otherwise; the set of the
\* results the search can end with, <<>> for None
RECURSIVE astar_loop(_, _, _, _)
astar_loop(free, to_see, parents, goal) ==
    IF to_see = {} THEN {<<>>}
    ELSE LET least == {e \in to_see :
                          \A o \in to_see :
                              e.estimated_cost <= o.estimated_cost}
             pop(e) ==
                 IF e.node = goal THEN {reverse_path(parents, e.node)}
                 ELSE IF e.cost > parents[e.node].cost
                 THEN astar_loop(free, to_see \ {e}, parents, goal)
                 ELSE LET next == astar_successors(
                                      adjacent_positions(free, e.node),
                                      e.node, e.cost, to_see \ {e}, parents,
                                      goal)
                      IN astar_loop(free, next.to_see, next.parents, goal)
         IN UNION {pop(e) : e \in least}

\* astar as Wingman::follow calls it: successors are the adjacent
\* unoccupied cells at cost 1, the heuristic is the distance to the goal,
\* success is being the goal
astar(free, start, goal) ==
    astar_loop(free,
               {[estimated_cost |-> distance(start, goal), cost |-> 0,
                 node |-> start]},
               [n \in {start} |-> [parent |-> <<>>, cost |-> 0]],
               goal)

(***************************************************************************)
(* The search on its own, between two cells of a map                      *)
(***************************************************************************)
AstarInit ==
    /\ ManagerIdle
    /\ event = [type |-> "Start"]
    /\ wing = NoWing
    /\ geo \in {[op |-> "astar", free |-> free, start |-> a, goal |-> b,
                 out |-> <<>>, done |-> FALSE] :
                    free \in Maps, a \in Window, b \in Window}

AstarStep ==
    /\ geo.op = "astar"
    /\ ~geo.done
    /\ \E path \in astar(geo.free, geo.start, geo.goal) :
           geo' = [geo EXCEPT !.out = path, !.done = TRUE]
    /\ event' = [type |-> "Astar"]
    /\ UNCHANGED managerVars
    /\ UNCHANGED wing

AstarNext == AstarStep

AstarSpec == AstarInit /\ [][AstarNext]_vars

\* two different cells that touch by a side or a corner
Adjacent8(p, q) ==
    /\ p # q
    /\ abs(p.x - q.x) <= 1
    /\ abs(p.y - q.y) <= 1

\* the cells reachable from the cells of seen by steps to an unoccupied
\* cell in range that touches
RECURSIVE ReachableFrom(_, _)
ReachableFrom(free, seen) ==
    LET more == seen \cup {q \in free :
                              /\ ~is_occupied(free, q)
                              /\ \E p \in seen : Adjacent8(p, q)}
    IN IF more = seen THEN seen ELSE ReachableFrom(free, more)

\* C18: for every map, start and goal the search returns a path exactly if
\* the goal can be reached from the start by steps to unoccupied
\* neighbours; a path returned begins at the start, ends at the goal, and
\* each of its cells after the first is an unoccupied cell in range that
\* touches the cell before it.
C18_AstarPath ==
    (geo.op = "astar" /\ geo.done) =>
        /\ geo.out # <<>> <=> geo.goal \in ReachableFrom(geo.free, {geo.start})
        /\ geo.out # <<>> =>
               /\ geo.out[1] = geo.start
               /\ geo.out[Len(geo.out)] = geo.goal
               /\ \A i \in 2..Len(geo.out) :
                      /\ geo.out[i] \in geo.free
                      /\ 0 <= geo.out[i].x /\ geo.out[i].x < 512
                      /\ 0 <= geo.out[i].y /\ geo.out[i].y < 256
                      /\ Adjacent8(geo.out[i - 1], geo.out[i])

\* a path of more than two cells was found around an occupied cell
C18_Witness ==
    /\ geo.op = "astar"
    /\ geo.done
    /\ Len(geo.out) >= 3
    /\ geo.free \cap Window # Window
    /\ obstacle_between(geo.free, geo.start, geo.goal) # <<>>

(***************************************************************************)
(* Wingman::follow, one suspension point at a time (wing.rs)               *)
(***************************************************************************)

MIN_FIRE_DIST == 500

\* the measured latencies the world view may show
Pings == {3, 40, 700, 32768}

\* the largest value of client.world.ping, a u16
U16_MAX == 65535

\* where the wingman may be: the centres of the cells of the window
Spots == {Position_from(c) : c \in Window}

\* the far end of the strip, where the wingman and the target may be too
FarSpot == Position_from(MapPosition_new(WinW + StripLen - 1, 0))

\* the calls on the client
press_key(key) == [call |-> "press_key", key |-> key]
release_key(key) == [call |-> "release_key", key |-> key]
point_at(pos) == [call |-> "point_at", pos |-> pos]
wait(ms) == [call |-> "wait", ms |-> ms]

\* (pos - me).length() < MIN_FIRE_DIST, on whole-number coordinates
in_fire_dist(pos, me) ==
    (pos.x - me.x) * (pos.x - me.x) + (pos.y - me.y) * (pos.y - me.y)
        < MIN_FIRE_DIST * MIN_FIRE_DIST

\* mutant: a wingman close enough fires whatever is between
fire_decision_blind(close, ob) == close

\* fire: set when the target is close, cleared when obstacle_between
\* found an obstacle
fire_decision(close, ob) == close /\ ob = <<>>

\* mutant: every obstacle counts as near
obstacle_near_always(ob, src_map_pos) == ob # <<>>

\* an obstacle was found and it is less than 16 cells from the wingman
obstacle_near(ob, src_map_pos) ==
    ob # <<>> /\ distance(ob[1], src_map_pos) < 16

\* the synchronous part of an iteration, from the cells of the wingman and
\* of the target to the point to aim at and the decision to fire; one
\* outcome for each path the search can return
pursue(free, me, target) ==
    LET src_map_pos == MapPosition_from(me)
        target_map_pos == MapPosition_from(target)
        adjacent == adjacent_positions(free, target_map_pos)
        occupied == is_occupied(free, target_map_pos)
        pathfinding_enabled == ~occupied \/ adjacent # <<>>
        dst_map_pos == IF occupied /\ adjacent # <<>>
                       THEN adjacent[1]
                       ELSE target_map_pos
        ob == IF pathfinding_enabled
              THEN obstacle_between(free, src_map_pos, dst_map_pos)
              ELSE <<>>
        near == obstacle_near(ob, src_map_pos)
        paths == IF near THEN astar(free, src_map_pos, dst_map_pos)
                 ELSE {<<>>}
    IN {[pos |-> IF Len(positions) >= 2
                 THEN Position_from(positions[2])
                 ELSE target,
         fire |-> fire_decision(in_fire_dist(target, me), ob),
         los |-> IF ~pathfinding_enabled THEN "skipped"
                 ELSE IF ob = <<>> THEN "clear" ELSE "blocked",
         searched |-> near] :
            positions \in paths}

\* delay_time: twice the ping as a u16, at most 1000, at least 10; the
\* product wraps in a build without overflow checks
delay_time(ping) == max(min((ping * 2) % 65536, 1000), 10)

\* ping * 2 does not fit the u16: a build with overflow checks panics there
delay_overflows(ping) == ping * 2 > U16_MAX

\* follow entered with a client logged in, on every map
FollowInit ==
    /\ ManagerIdle
    /\ event = [type |-> "Start"]
    /\ geo = NoGeo
    /\ wing \in {[pc |-> "press_up", shutdown |-> FALSE, free |-> free,
                  me |-> Position_from(MapPosition_new(0, 0)),
                  target |-> <<>>, plan |-> <<>>, calls |-> <<>>, why |-> "",
                  exit_calls |-> <<>>, after |-> <<>>] : free \in Maps}

\* mutant: the read of the flag gives false whatever was stored
shutdown_read_stale(w) == FALSE

\* Flag::read on the handle of the wingman
shutdown_read(w) == w.shutdown

\* what a call is about: the key of a key call, the name of any other call
CallTag(c) == IF c.call \in {"press_key", "release_key"} THEN c.key ELSE c.call

\* the wingman makes call c in its iteration; after keeps what every call
\* made in the loop with the flag already set was about
Emit(w, c) ==
    [w EXCEPT !.calls = Append(@, c),
              !.after = IF w.shutdown THEN Append(@, CallTag(c)) ELSE @]

\* follow returned through `?` after a call failed: nothing more is sent
Failed(w, why) == [w EXCEPT !.pc = "returned", !.why = why]

\* line 101: the first press of the Up key
WingPressUp(ok) ==
    /\ wing.pc = "press_up"
    /\ wing' = IF ok THEN [wing EXCEPT !.pc = "next"]
               ELSE Failed(wing, "start")
    /\ event' = [type |-> "WingPressUp", ok |-> ok]
    /\ UNCHANGED managerVars
    /\ UNCHANGED geo

\* lines 102-118: client.next() resolves and leaves the wingman at me and
\* the target at target in the world view (<<>>: no such player); late
\* tells whether more than 500 ms have passed since Up was last pressed.
\* The loop goes on to its next suspension point
WingNextEvent(res, me, target, late) ==
    /\ wing.pc = "next"
    /\ LET head == loop_head(res, shutdown_read(wing), target # <<>>)
           seen == [wing EXCEPT !.me = me, !.target = target,
                                !.plan = <<>>, !.calls = <<>>]
       IN CASE head = "read" -> wing' = Failed(seen, "read")
            [] head \in {"closed", "flag", "absent"} ->
                   wing' = [seen EXCEPT !.pc = "release_up", !.why = head]
            [] head = "go" /\ late ->
                   wing' = [seen EXCEPT !.pc = "thrust"]
            [] head = "go" /\ ~late ->
                   \E plan \in pursue(wing.free, me, target[1]) :
                       wing' = [seen EXCEPT !.pc = "point_at",
                                            !.plan = <<plan>>]
    /\ event' = [type |-> "WingNextEvent", res |-> res]
    /\ UNCHANGED managerVars
    /\ UNCHANGED geo

\* lines 120-166: more than 500 ms since the last press, Up is pressed
\* again
WingThrust(ok) ==
    /\ wing.pc = "thrust"
    /\ LET sent_up == Emit(wing, press_key("Up"))
       IN IF ok
          THEN \E plan \in pursue(wing.free, wing.me, wing.target[1]) :
                   wing' = [sent_up EXCEPT !.pc = "point_at",
                                           !.plan = <<plan>>]
          ELSE wing' = Failed(sent_up, "send")
    /\ event' = [type |-> "WingThrust", ok |-> ok]
    /\ UNCHANGED managerVars
    /\ UNCHANGED geo

\* line 168: client.point_at(pos)
WingPointAt(ok) ==
    /\ wing.pc = "point_at"
    /\ LET aimed == Emit(wing, point_at(wing.plan[1].pos))
       IN wing' = IF ok THEN [aimed EXCEPT !.pc = "fire_key"]
                  ELSE Failed(aimed, "send")
    /\ event' = [type |-> "WingPointAt", ok |-> ok]
    /\ UNCHANGED managerVars
    /\ UNCHANGED geo

\* lines 170-174: the Fire key pressed or released
WingFireKey(ok) ==
    /\ wing.pc = "fire_key"
    /\ LET keyed == Emit(wing, IF wing.plan[1].fire
                                THEN press_key("Fire")
                                ELSE release_key("Fire"))
       IN wing' = IF ok THEN [keyed EXCEPT !.pc = "wait"]
                  ELSE Failed(keyed, "send")
    /\ event' = [type |-> "WingFireKey", ok |-> ok]
    /\ UNCHANGED managerVars
    /\ UNCHANGED geo

\* lines 176-177: the wait that ends the iteration, for a time taken from
\* the ping of the world view; once it is over, the world view is not read
\* again before the next event replaces it
WingWait(ok, ping) ==
    /\ wing.pc = "wait"
    /\ LET waited == Emit(wing, wait(delay_time(ping)))
       IN wing' = IF ok
                  THEN [waited EXCEPT !.pc = "next", !.plan = <<>>,
                                      !.me = Position_from(MapPosition_new(0, 0)),
                                      !.target = <<>>]
                  ELSE Failed(waited, "send")
    /\ event' = [type |-> "WingWait", ok |-> ok]
    /\ UNCHANGED managerVars
    /\ UNCHANGED geo

\* line 176 in a build with overflow checks: ping * 2 overflows, the task
\* of the wingman panics and no wait is made
WingOverflow(ping) ==
    /\ wing.pc = "wait"
    /\ delay_overflows(ping)
    /\ wing' = Failed(wing, "panic")
    /\ event' = [type |-> "WingOverflow"]
    /\ UNCHANGED managerVars
    /\ UNCHANGED geo

\* line 180: the loop was left, the Up key is released and follow returns
\* what the call returned
WingReleaseUp(ok) ==
    /\ wing.pc = "release_up"
    /\ wing' = [wing EXCEPT !.pc = "returned",
                            !.exit_calls = Append(@, release_key("Up"))]
    /\ event' = [type |-> "WingReleaseUp", ok |-> ok]
    /\ UNCHANGED managerVars
    /\ UNCHANGED geo

\* the fleet manager drops its handle of the flag
FlagSet ==
    /\ wing.pc \notin {"off", "returned"}
    /\ ~wing.shutdown
    /\ wing' = [wing EXCEPT !.shutdown = TRUE]
    /\ event' = [type |-> "FlagSet"]
    /\ UNCHANGED managerVars
    /\ UNCHANGED geo

\* the steps of the wingman
FollowStep ==
    \/ \E ok \in BOOLEAN : WingPressUp(ok)
    \/ \E res \in {"Err", "None"} :
           WingNextEvent(res, wing.me, wing.target, FALSE)
    \/ \E me \in Spots \cup {FarSpot},
          target \in {<<>>} \cup {<<t>> : t \in Spots \cup {FarSpot}},
          late \in BOOLEAN :
           WingNextEvent("Some", me, target, late)
    \/ \E ok \in BOOLEAN : WingThrust(ok)
    \/ \E ok \in BOOLEAN : WingPointAt(ok)
    \/ \E ok \in BOOLEAN : WingFireKey(ok)
    \/ \E ok \in BOOLEAN, ping \in Pings : WingWait(ok, ping)
    \/ \E ping \in Pings : WingOverflow(ping)
    \/ \E ok \in BOOLEAN : WingReleaseUp(ok)

FollowNext == FollowStep \/ FlagSet

FollowSpec == FollowInit /\ [][FollowNext]_vars

\* C14: however the wingman leaves the pursuit (the flag seen set, the
\* target gone from the world view, a read or a send failing), it has
\* called release_key for the Up key and for the Fire key on its way out
\* by the time follow has returned.
C14_ReleasesOnExit ==
    (wing.pc = "returned" /\ wing.why \in {"flag", "absent", "read", "send"}) =>
        /\ \E i \in DOMAIN wing.exit_calls :
               wing.exit_calls[i] = release_key("Up")
        /\ \E i \in DOMAIN wing.exit_calls :
               wing.exit_calls[i] = release_key("Fire")

(***************************************************************************)
(* The fleet manager when its client calls fail                            *)
(***************************************************************************)

\* the chat calls among a sequence of client calls, in order
ChatCalls(calls) == SelectSeq(calls, LAMBDA c : c.call = "chat")

\* the positions of the chat calls in a sequence of client calls
ChatAt(calls) == {i \in DOMAIN calls : calls[i].call = "chat"}

\* C11: whenever a command succeeded with the reply lines l1..lk, the
\* handler made exactly k chat calls, the i-th carrying li, and between two
\* consecutive chat calls exactly one wait of 1000 ms, whichever of the chat
\* calls and waits failed.
C11_RelayEveryLine ==
    (event.type = "ChatPublic" /\ parsed # Idle /\ parsed.tag = "Ok") =>
        /\ Len(ChatCalls(sent)) = Len(parsed.message)
        /\ \A i \in DOMAIN parsed.message :
               ChatCalls(sent)[i].text = parsed.message[i]
        /\ \A i \in ChatAt(sent), j \in ChatAt(sent) :
               (i < j /\ ~\E k \in ChatAt(sent) : i < k /\ k < j) =>
                   /\ j = i + 2
                   /\ sent[i + 1] = [call |-> "wait", ms |-> 1000]

\* a help request was answered in full although its first chat call and the
\* wait after it failed
C11_Witness ==
    /\ event.type = "ChatPublic"
    /\ parsed # Idle
    /\ parsed.tag = "Ok"
    /\ Len(parsed.message) >= 2
    /\ {1, 2} \subseteq failed
    /\ Len(ChatCalls(sent)) = Len(parsed.message)

\* the step handled a command that parse_command refused
IsBadCommandStep(ev, res) ==
    /\ ev.type = "ChatPublic"
    /\ res # Idle
    /\ res.tag = "Err"
    /\ res.err.bad \in {"Unknown", "NoWings", "TooManyWings", "AlreadyWinged"}

\* C12: a command refused as unknown, without wings, above the maximum or
\* already assigned is answered with exactly one chat call carrying the
\* text of the error; the step leaves the map and every flag as they were,
\* spawns no unit and leaves the loop running, also when the chat call
\* fails.
C12_BadCommandAnswered ==
    [][ IsBadCommandStep(event', parsed') =>
            /\ sent' = << [call |-> "chat",
                           text |-> fmt_BadCommand(parsed'.err)] >>
            /\ wingmen' = wingmen
            /\ flags' = flags
            /\ units' = units
            /\ spawned' = {}
            /\ running' ]_vars

\* a second wings request of a player with wings was refused, and the chat
\* call of the answer failed
C12_Witness ==
    /\ IsBadCommandStep(event, parsed)
    /\ parsed.err.bad = "AlreadyWinged"
    /\ failed = {1}
    /\ event.id \in DOMAIN wingmen
    /\ running

\* C13: the loop of Server::run ends in the step in which reading the next
\* event fails and in no other step; a handler whose chat call or wait
\* failed leaves it running.
C13_EndsOnReadErrorOnly ==
    [][ /\ (running /\ event'.type = "ReadError") => ~running'
        /\ (running /\ ~running') => event'.type = "ReadError"
        /\ (running /\ failed' # {}) => running' ]_vars

\* the announcement to a new player failed and the loop is running
C13_Witness ==
    /\ event.type = "PlayerNew"
    /\ failed # {}
    /\ sent # <<>>
    /\ running

(***************************************************************************)
(* Cancellation                                                            *)
(***************************************************************************)

\* unit u is in the loop of follow and its flag is set
Cancelled(u) ==
    /\ u \in DOMAIN units
    /\ units[u].pc \in {"next", "act"}
    /\ FlagRead(flags, units[u].shutdown)

\* follow has returned in unit u
Returned(u) == u \in DOMAIN units /\ units[u].pc = "done"

\* C15: a wingman whose flag is set while it is in the loop of follow has
\* returned in the end, given that each of its suspension points resolves;
\* the step of the fleet manager that handles the call-off or the leave
\* leaves every wingman where it is and the loop of the manager running.
C15_CancelledInTheEnd ==
    /\ \A u \in 1..MaxUnits : (Cancelled(u) ~> Returned(u))
    /\ [][ ClearedBy(event', parsed') # {} =>
               /\ running'
               /\ \A u \in DOMAIN units : units'[u].pc = units[u].pc ]_vars

\* a call-off was handled while a wingman was in the loop of follow, which
\* it still is, with its flag set
C15_Witness ==
    /\ event.type = "ChatPublic"
    /\ ClearedBy(event, parsed) # {}
    /\ running
    /\ \E u \in DOMAIN units : Cancelled(u)

(***************************************************************************)
(* The iterations of the pursuit                                           *)
(***************************************************************************)

\* the calls that steer the wingman: aiming, pressing Fire, pressing Up
IsPursuitCall(c) ==
    \/ c.call = "point_at"
    \/ c = press_key("Fire")
    \/ c = press_key("Up")

\* C19: an iteration begins with client.next(); when that fails the loop is
\* left for the failed read, otherwise when the flag is set it is left for
\* the flag, otherwise when the target is absent it is left for that; an
\* iteration the loop is left in makes no call that aims, presses Fire or
\* presses Up, up to the return of follow.
C19_StopsBeforeActing ==
    [][ /\ event'.type = "WingNextEvent" =>
            /\ wing.calls # wing'.calls => wing'.calls = <<>>
            /\ event'.res = "Err" =>
                   wing'.pc = "returned" /\ wing'.why = "read"
            /\ (event'.res = "Some" /\ wing.shutdown) =>
                   wing'.pc = "release_up" /\ wing'.why = "flag"
            /\ (event'.res = "Some" /\ ~wing.shutdown /\ wing'.target = <<>>) =>
                   wing'.pc = "release_up" /\ wing'.why = "absent"
        /\ (wing' # NoWing /\ wing'.why \in {"read", "flag", "absent"}) =>
               /\ wing'.pc \in {"release_up", "returned"}
               /\ \A i \in DOMAIN wing'.calls : ~IsPursuitCall(wing'.calls[i]) ]_vars

\* the flag was seen set with the target still in the world view, and
\* follow released Up and returned
C19_Witness ==
    /\ wing # NoWing
    /\ wing.pc = "returned"
    /\ wing.why = "flag"
    /\ wing.target # <<>>
    /\ wing.calls = <<>>
    /\ wing.exit_calls # <<>>

\* C20: an iteration that ran to the end of its wait made exactly one call
\* on the Fire key, a press or a release, after its call of point_at; it
\* pressed Fire only with the target less than 500 away from the wingman
\* in a straight line and with no obstacle reported by the obstacle_between
\* of that iteration.
C20_FireOncePerIteration ==
    [][ (event'.type = "WingWait" /\ event'.ok) =>
            LET calls == wing'.calls
                fires == {i \in DOMAIN calls :
                             calls[i] \in {press_key("Fire"),
                                           release_key("Fire")}}
                aims == {i \in DOMAIN calls : calls[i].call = "point_at"}
                dx == wing.target[1].x - wing.me.x
                dy == wing.target[1].y - wing.me.y
            IN /\ Cardinality(fires) = 1
               /\ aims # {}
               /\ \A i \in fires, j \in aims : j < i
               /\ (\E i \in fires : calls[i] = press_key("Fire")) =>
                      /\ dx * dx + dy * dy < 500 * 500
                      /\ wing.plan[1].los # "blocked" ]_vars

\* an iteration on a map with occupied cells has pressed Fire and waited
C20_Witness ==
    /\ wing # NoWing
    /\ wing.pc = "next"
    /\ \E i \in DOMAIN wing.calls : wing.calls[i] = press_key("Fire")
    /\ wing.calls[Len(wing.calls)].call = "wait"
    /\ wing.free \cap Window # Window

\* the cell the wingman heads for: the cell of the target or, when that
\* is occupied, the first unoccupied cell around it in the order of the
\* scan; <<>> when there is none
Destination(free, target) ==
    LET cell == MapPosition_new(cell_index(target.x, BOUNDARY_X, MAP_MAX_X),
                                cell_index(target.y, BOUNDARY_Y, MAP_MAX_Y))
        around == {i \in 1..8 :
                      ~is_occupied(free,
                                   MapPosition_new(cell.x + ScanOffsets[i][1],
                                                   cell.y + ScanOffsets[i][2]))}
        first == CHOOSE i \in around : \A j \in around : i <= j
    IN IF ~is_occupied(free, cell) THEN <<cell>>
       ELSE IF around = {} THEN <<>>
       ELSE <<MapPosition_new(cell.x + ScanOffsets[first][1],
                              cell.y + ScanOffsets[first][2])>>

\* C21: the point an iteration aims at is the position of the target
\* unless there is a destination cell, obstacle_between finds an obstacle
\* on the line from the cell of the wingman to it, that obstacle is less
\* than 16 cells from the wingman and the search returns a path of two
\* cells or more; it is then the centre of the second cell of a path the
\* search returns. With the cell of the target and the eight cells around
\* it occupied, neither obstacle_between nor the search is run.
C21_AimPoint ==
    (wing # NoWing /\ wing.plan # <<>>) =>
        LET plan == wing.plan[1]
            target == wing.target[1]
            src == MapPosition_from(wing.me)
            dst == Destination(wing.free, target)
            ob == IF dst = <<>> THEN <<>>
                  ELSE obstacle_between(wing.free, src, dst[1])
            blocked_near == /\ ob # <<>>
                            /\ abs(ob[1].x - src.x) + abs(ob[1].y - src.y) < 16
            paths == IF blocked_near
                     THEN {path \in astar(wing.free, src, dst[1]) :
                              Len(path) >= 2}
                     ELSE {}
        IN /\ plan.pos # target => paths # {}
           /\ paths # {} =>
                  \E path \in paths :
                      /\ plan.pos.x = path[2].x * 64 + 32 - 16384
                      /\ plan.pos.y = path[2].y * 64 + 32 - 8192
           /\ dst = <<>> => plan.los = "skipped" /\ ~plan.searched

\* the search was run and the wingman has aimed at a point that is not
\* the position of the target
C21_Witness ==
    /\ wing # NoWing
    /\ wing.plan # <<>>
    /\ wing.plan[1].pos # wing.target[1]
    /\ wing.plan[1].searched
    /\ wing.pc = "fire_key"

(***************************************************************************)
(* The wait of an iteration on its own, for every ping a u16 holds         *)
(***************************************************************************)
DelayInit ==
    /\ ManagerIdle
    /\ event = [type |-> "Start"]
    /\ wing = NoWing
    /\ geo \in {[op |-> "delay", ping |-> ping, done |-> FALSE,
                 panicked |-> FALSE, ms |-> 0] : ping \in 0..U16_MAX}

\* line 176 where the product fits, or in a build without overflow checks
DelayStep ==
    /\ geo.op = "delay"
    /\ ~geo.done
    /\ geo' = [geo EXCEPT !.done = TRUE, !.ms = delay_time(geo.ping)]
    /\ event' = [type |-> "Delay"]
    /\ UNCHANGED managerVars
    /\ UNCHANGED wing

\* line 176 in a build with overflow checks, where the product does not fit
DelayPanic ==
    /\ geo.op = "delay"
    /\ ~geo.done
    /\ delay_overflows(geo.ping)
    /\ geo' = [geo EXCEPT !.done = TRUE, !.panicked = TRUE]
    /\ event' = [type |-> "DelayPanic"]
    /\ UNCHANGED managerVars
    /\ UNCHANGED wing

DelayNext == DelayStep \/ DelayPanic

DelaySpec == DelayInit /\ [][DelayNext]_vars

\* C22: for every ping a u16 holds the wait is made and lasts twice the
\* ping, the product taken in the integers, but 10 ms when that is below
\* 10 and 1000 ms when it is above 1000.
C22_SleepIsClamp ==
    (geo.op = "delay" /\ geo.done) =>
        /\ ~geo.panicked
        /\ geo.ms = IF 2 * geo.ping < 10 THEN 10
                    ELSE IF 2 * geo.ping > 1000 THEN 1000
                    ELSE 2 * geo.ping

(***************************************************************************)
(* The transform against the clamp                                         *)
(***************************************************************************)

\* v, but lo when it is below lo and hi when it is above hi
Clamp(v, lo, hi) == IF v < lo THEN lo ELSE IF v > hi THEN hi ELSE v

\* C23: for every world position (wx, wy) the cell has
\* x = clamp(floor((wx + 16384) / 64), 0, 511) and
\* y = clamp(floor((wy + 8192) / 64), 0, 255), so that a coordinate below
\* the world on an axis gives index 0 and one above it the last index.
C23_TransformIsClamp ==
    (geo.op = "from" /\ geo.out # <<>>) =>
        /\ geo.out[1].x = Clamp((geo.pos.x + 16384) \div 64, 0, 511)
        /\ geo.out[1].y = Clamp((geo.pos.y + 8192) \div 64, 0, 255)

(***************************************************************************)
(* The end of the loop of the fleet manager, and the reach of the flags    *)
(***************************************************************************)

\* the units whose task has not returned
Running == {u \in DOMAIN units : units[u].pc # "done"}

\* C24: the step in which the loop of the fleet manager ends sets every
\* flag its map held, and from then on every wingman that has not returned
\* has its flag set.
C24_EndSetsFlags ==
    [][ /\ (running /\ ~running') =>
               \A f \in Registered : flags'[f].inner
        /\ ~running' =>
               \A u \in DOMAIN units' :
                   units'[u].pc # "done" => flags'[units'[u].shutdown].inner ]_vars

\* the loop ended while a wingman was in the loop of follow, with a flag
\* that only the end of the loop set
C24_Witness ==
    /\ ~running
    /\ event.type = "ReadError"
    /\ \E u \in Running :
           /\ units[u].pc \in {"next", "act"}
           /\ flags[units[u].shutdown].inner
           /\ flags[units[u].shutdown].stores.server = 1

\* the flag of unit u is in the list the map holds for the player the
\* unit follows
HeldForTarget(u) ==
    \E p \in DOMAIN wingmen :
        /\ NameOf(p) = units[u].target
        /\ \E i \in DOMAIN wingmen[p] : wingmen[p][i] = units[u].shutdown

\* C25: in every state between two handlers, every wingman that has not
\* returned has its flag set, or its flag is in the map of the running
\* fleet manager under the player whose command spawned it.
C25_FlagInReach ==
    \A u \in Running :
        \/ flags[units[u].shutdown].inner
        \/ running /\ HeldForTarget(u)

\* after a call-off for one player the wingman of the other is in the loop
\* of follow with its flag unset and in the map
C25_Witness ==
    /\ running
    /\ event.type = "ChatPublic"
    /\ ClearedBy(event, parsed) # {}
    /\ \E u \in Running :
           /\ units[u].pc \in {"next", "act"}
           /\ ~flags[units[u].shutdown].inner
           /\ HeldForTarget(u)

(***************************************************************************)
(* What a wingman still does once its flag is set                          *)
(***************************************************************************)

\* how many of the calls named in names are the call named name
CountOf(names, name) == Cardinality({i \in DOMAIN names : names[i] = name})

\* C26: with its flag set a wingman makes no more than the rest of the
\* iteration it is in, at most one point_at and at most one call on the
\* Fire key, and the next event it reads ends its pursuit: it begins no
\* iteration with the flag set.
C26_AtMostOneIteration ==
    [][ /\ (wing # NoWing /\ wing' # NoWing) =>
               /\ CountOf(wing'.after, "point_at") <= 1
               /\ CountOf(wing'.after, "Fire") <= 1
               /\ CountOf(wing'.after, "wait") <= 1
        /\ (event'.type = "WingNextEvent" /\ wing.shutdown) =>
               /\ wing'.pc \in {"release_up", "returned"}
               /\ wing'.calls = <<>>
               /\ wing'.after = wing.after ]_vars

\* the flag was set after the wingman had aimed; it pressed or released
\* Fire and waited, read the next event and left the loop
C26_Witness ==
    /\ wing # NoWing
    /\ wing.pc = "returned"
    /\ wing.why = "flag"
    /\ wing.after = <<"Fire", "wait">>

(***************************************************************************)
(* The fleets of different players                                         *)
(***************************************************************************)

\* the entry of player q and the flags in it are as they were
EntryKept(q) ==
    /\ q \in DOMAIN wingmen <=> q \in DOMAIN wingmen'
    /\ q \in DOMAIN wingmen =>
           /\ wingmen'[q] = wingmen[q]
           /\ \A i \in 1..Len(wingmen[q]) :
                  flags'[wingmen[q][i]] = flags[wingmen[q][i]]

\* the wingmen that follow player q and their flags are as they were
FleetKept(q) ==
    \A u \in DOMAIN units :
        units[u].target = NameOf(q) =>
            /\ units'[u] = units[u]
            /\ flags'[units[u].shutdown] = flags[units[u].shutdown]

\* C27: the handling of a chat message (a wings command and a call-off
\* among them) or of a leave of player P leaves the entry of every other
\* player, the flags in it and the flags of the wingmen that follow the
\* other player as they were.
C27_FleetsIsolated ==
    [][ event'.type \in {"ChatPublic", "PlayerLeave"} =>
            \A q \in PlayerIds \ {event'.id} : EntryKept(q) /\ FleetKept(q)
      ]_vars

\* a call-off or a leave of one player has set the flag of its wingman
\* while another player has an entry whose flags are all unset
C27_Witness ==
    /\ \/ event.type = "PlayerLeave"
       \/ event.type = "ChatPublic" /\ parsed.tag = "Ok"
                                    /\ parsed.kind.kind = "ClearWings"
    /\ event.id \notin DOMAIN wingmen
    /\ \E u \in DOMAIN units :
           /\ units[u].target = NameOf(event.id)
           /\ flags[units[u].shutdown].inner
           /\ flags[units[u].shutdown].stores.server > 0
    /\ \E q \in DOMAIN wingmen :
           /\ q # event.id
           /\ wingmen[q] # <<>>
           /\ \A i \in 1..Len(wingmen[q]) : ~flags[wingmen[q][i]].inner

====
